---- MODULE Spec2Model ----
(***************************************************************************)
(* A model of the INI parser and document model of ini.hpp.                *)
(*                                                                         *)
(* Characters are their 8-bit codes, strings are sequences of codes.       *)
(* Parser::parse is modelled one loop iteration per step (the outer        *)
(* dispatch loop and each inner scanning loop), Data and Section as        *)
(* finite maps with the operations of the two classes.                     *)
(***************************************************************************)
EXTENDS Integers, Sequences, FiniteSets, TLC

(***************************************************************************)
(* Character codes of the literals the parser compares against.            *)
(***************************************************************************)
TAB == 9
LF == 10
CR == 13
SP == 32
SEMI == 59
EQ == 61
LBR == 91
RBR == 93
\* two ordinary characters, as used by the tests ("a=b")
ChA == 97
ChB == 98

(***************************************************************************)
(* Bounds of the model.                                                    *)
(***************************************************************************)
\* longest input of the character-level specification
MaxLen == 4
\* most lines of an input of the line-level specification
MaxLines == 3
\* elements past end-of-input that can be read before the read faults
MaxOverrun == 1

\* the alphabet the character-level inputs are drawn from
Chars == {TAB, LF, CR, SP, SEMI, EQ, LBR, RBR, ChA, ChB}

RECURSIVE SeqsUpTo(_, _)
\* all sequences over S of length at most n
SeqsUpTo(S, n) ==
    IF n = 0 THEN {<<>>}
    ELSE LET shorter == SeqsUpTo(S, n - 1)
         IN  shorter \cup {Append(s, c) : s \in {t \in shorter : Len(t) = n - 1}, c \in S}

(***************************************************************************)
(* Document model: Section and Data (std::map keeps keys unique; the       *)
(* order of iteration is the order of the keys).                           *)
(***************************************************************************)
\* an empty std::map
EmptyMap == [k \in {} |-> <<>>]

\* Section{}: default-constructed, no name, no values
DefaultSection == [name |-> <<>>, values |-> EmptyMap]

\* m with key k bound to v (insert or overwrite)
Put(m, k, v) == [x \in DOMAIN m \cup {k} |-> IF x = k THEN v ELSE m[x]]

\* Section::hasValue
hasValue(sec, k) == k \in DOMAIN sec.values

\* Section::operator[] (mutable): the section after the access
SectionSubscript(sec, k) ==
    IF k \in DOMAIN sec.values
    THEN sec
    ELSE [sec EXCEPT !.values = Put(sec.values, k, <<>>)]

\* Data::hasSection
hasSection(sections, n) == n \in DOMAIN sections

\* as DataSubscript, but the access always stores a fresh Section
DataSubscriptResets(sections, n) == Put(sections, n, DefaultSection)

\* Data::operator[] (mutable): the sections after the access
DataSubscript(sections, n) ==
    IF n \in DOMAIN sections
    THEN sections
    ELSE Put(sections, n, DefaultSection)

\* result[name] = Section{}
AssignSection(sections, n, sec) ==
    LET s1 == DataSubscript(sections, n)
    IN  [s1 EXCEPT ![n] = sec]

\* as AssignValue, but the assignment empties the section's other values
AssignValueEmptiesOthers(sections, n, k, v) ==
    LET s1 == DataSubscript(sections, n)
    IN  [s1 EXCEPT ![n] = [@ EXCEPT !.values =
            [x \in DOMAIN @ \cup {k} |-> IF x = k THEN v ELSE <<>>]]]

\* as AssignValue, but a key that is present keeps its value
AssignValueKeepsFirst(sections, n, k, v) ==
    LET s1 == DataSubscript(sections, n)
    IN  IF k \in DOMAIN s1[n].values
        THEN s1
        ELSE [s1 EXCEPT ![n] = [@ EXCEPT !.values = Put(@, k, v)]]

\* result[name][key] = value
AssignValue(sections, n, k, v) ==
    LET s1 == DataSubscript(sections, n)
        sec == SectionSubscript(s1[n], k)
    IN  [s1 EXCEPT ![n] = [sec EXCEPT !.values[k] = v]]

\* m without key k (std::map::erase)
Erase(m, k) == [x \in DOMAIN m \ {k} |-> m[x]]

\* Section::setValue: values.insert(make_pair(key, value)); insert leaves an
\* element that is already stored under the key as it is
setValue(sec, k, v) ==
    IF k \in DOMAIN sec.values
    THEN sec
    ELSE [sec EXCEPT !.values = Put(sec.values, k, v)]

\* Section::deleteValue
deleteValue(sec, k) ==
    IF k \in DOMAIN sec.values
    THEN [sec EXCEPT !.values = Erase(sec.values, k)]
    ELSE sec

\* Section::getValue: the stored value, or the default
getValue(sec, k, defaultValue) ==
    IF k \in DOMAIN sec.values THEN sec.values[k] ELSE defaultValue

\* as getValueSection, but the lookup goes through the mutable operator[]
getValueSectionInserts(sec, k) == SectionSubscript(sec, k)

\* the section after Section::getValue: a const member, find inserts nothing
getValueSection(sec, k) == sec

\* as eraseSection, but a hit clears the whole map
eraseSectionClears(sections, n) ==
    IF n \in DOMAIN sections THEN EmptyMap ELSE sections

\* Data::eraseSection
eraseSection(sections, n) ==
    IF n \in DOMAIN sections THEN Erase(sections, n) ELSE sections

\* std::less<> on strings: lexicographic order of the character codes
RECURSIVE StringLess(_, _)
StringLess(a, b) ==
    IF b = <<>> THEN FALSE
    ELSE IF a = <<>> THEN TRUE
    ELSE IF Head(a) # Head(b) THEN Head(a) < Head(b)
    ELSE StringLess(Tail(a), Tail(b))

\* as FirstKey, but the greatest element
FirstKeyGreatest(S) == CHOOSE x \in S : \A y \in S \ {x} : StringLess(y, x)

\* the element a std::map iteration over the keys S visits first
FirstKey(S) == CHOOSE x \in S : \A y \in S \ {x} : StringLess(x, y)

\* a range-for from begin() to end() over the map m: the keys in visiting order
RECURSIVE visit(_)
visit(m) ==
    IF DOMAIN m = {} THEN <<>>
    ELSE LET k == FirstKey(DOMAIN m) IN <<k>> \o visit(Erase(m, k))

\* Data::getSize, Section::getSize: size() of the map
getSize(m) == Cardinality(DOMAIN m)

\* as isWhitespace, but a tab is no whitespace
isWhitespaceSpaceOnly(c) == c = SP

(***************************************************************************)
(* Parser helpers.                                                         *)
(***************************************************************************)
\* Parser::isWhitespace
isWhitespace(c) == c = SP \/ c = TAB

\* as isNewline, but '\r' is no line terminator
isNewlineLFOnly(c) == c = LF

\* the line terminators the scanning loops test for
isNewline(c) == c = LF \/ c = CR

RECURSIVE leftTrim(_)
\* Parser::leftTrim: erase up to the first non-whitespace character
leftTrim(s) ==
    IF s # <<>> /\ isWhitespace(Head(s)) THEN leftTrim(Tail(s)) ELSE s

RECURSIVE rightTrim(_)
\* Parser::rightTrim: erase after the last non-whitespace character
rightTrim(s) ==
    IF s # <<>> /\ isWhitespace(s[Len(s)])
    THEN rightTrim(SubSeq(s, 1, Len(s) - 1))
    ELSE s

\* as trim, but only the right end is trimmed
trimRightOnly(s) == rightTrim(s)

\* Parser::trim
trim(s) == leftTrim(rightTrim(s))

(***************************************************************************)
(* State.  The parser's locals (Parser::parse) and, for the document       *)
(* model operations, a Data object with the outcome of the last call.      *)
(***************************************************************************)
VARIABLES
    input,          \* the sequence [begin, end) given to parse
    pc,             \* where parse is: "outer", "header", "headerComment",
                    \* "comment", "keyvalue", "keyvalueComment", and finally
                    \* "done" (returned), "error" (ParseError), "crash"
    iterator,       \* the cursor, 1-based; Len(input) + 1 is end
    section,        \* std::string section (declared once, before the loop)
    parsedSection,  \* bool parsedSection of the header branch
    key,            \* std::string key of the key/value branch
    value,          \* std::string value of the key/value branch
    parsedKey,      \* bool parsedKey of the key/value branch
    result,         \* Data result
    error,          \* what() of the ParseError thrown, "" when none
    data,           \* a Data object the caller works on
    ret             \* outcome of the last call on data

vars == <<input, pc, iterator, section, parsedSection, key, value, parsedKey,
          result, error, data, ret>>

parserVars == <<input, pc, iterator, section, parsedSection, key, value,
                parsedKey, result, error>>

\* terminator of a C string; stands for "no element" where none is read
NUL == 0

\* detail::utf8ByteOrderMark
\* as toChar, but the element's value is kept as it is
toCharIdentity(x) == x

\* static_cast<char>(*iterator): the char with the element's low eight bits,
\* written as its code 0..255
toChar(x) == x % 256

\* static_cast<std::uint8_t>(*begin)
toByte(x) == x % 256

utf8ByteOrderMark == <<239, 187, 191>>

\* as hasByteOrderMark, but only the first byte of the mark is compared
hasByteOrderMarkFirstByte(t) ==
    1 <= Len(t) /\ toByte(t[1]) = utf8ByteOrderMark[1]

\* Parser::hasByteOrderMark
hasByteOrderMark(t) ==
    \A i \in 1..Len(utf8ByteOrderMark) : i <= Len(t) /\ toByte(t[i]) = utf8ByteOrderMark[i]

\* the positions hasByteOrderMark dereferences: *begin is evaluated in the
\* iteration for mark byte i when the bytes before it matched and begin != end
hasByteOrderMarkReads(t) ==
    {i \in 1..Len(utf8ByteOrderMark) :
        /\ i <= Len(t)
        /\ \A j \in 1..(i - 1) : toByte(t[j]) = utf8ByteOrderMark[j]}

\* the parser's state as one record
State ==
    [input |-> input, pc |-> pc, iterator |-> iterator, section |-> section,
     parsedSection |-> parsedSection, key |-> key, value |-> value,
     parsedKey |-> parsedKey, result |-> result, error |-> error]

\* the parser's next state is the record s
Set(s) ==
    /\ input' = s.input
    /\ pc' = s.pc
    /\ iterator' = s.iterator
    /\ section' = s.section
    /\ parsedSection' = s.parsedSection
    /\ key' = s.key
    /\ value' = s.value
    /\ parsedKey' = s.parsedKey
    /\ result' = s.result
    /\ error' = s.error

\* the state parse starts in on input t
Start(t) ==
    [input |-> t, pc |-> "outer",
     iterator |-> IF hasByteOrderMark(t) THEN 4 ELSE 1,
     section |-> <<>>, parsedSection |-> FALSE, key |-> <<>>, value |-> <<>>,
     parsedKey |-> FALSE, result |-> EmptyMap, error |-> ""]

\* end
End(s) == Len(s.input) + 1

\* the position the next step dereferences: while (++iterator != end) of the
\* comment branch looks at the element after the cursor
ReadPos(s) == IF s.pc = "comment" THEN s.iterator + 1 ELSE s.iterator

\* the next step dereferences a position past end
OutOfBounds(s) == ReadPos(s) > End(s)

\* throw ParseError{msg}
Throw(s, msg) == [s EXCEPT !.pc = "error", !.error = msg]

\* as dispatch, but '\r' is not skipped at the start of a line
dispatchKeepsCR(s, c) ==
    IF isWhitespace(c) \/ c = LF
    THEN [s EXCEPT !.iterator = @ + 1]
    ELSE IF c = LBR
    THEN [s EXCEPT !.iterator = @ + 1, !.parsedSection = FALSE, !.pc = "header"]
    ELSE IF c = SEMI
    THEN [s EXCEPT !.pc = "comment"]
    ELSE [s EXCEPT !.key = <<>>, !.value = <<>>, !.parsedKey = FALSE,
                   !.pc = "keyvalue"]

\* one iteration of the outer loop with iterator != end: dispatch on *iterator
dispatch(s, c) ==
    IF isWhitespace(c) \/ c = LF \/ c = CR
    THEN [s EXCEPT !.iterator = @ + 1]
    ELSE IF c = LBR
    THEN [s EXCEPT !.iterator = @ + 1, !.parsedSection = FALSE, !.pc = "header"]
    ELSE IF c = SEMI
    THEN [s EXCEPT !.pc = "comment"]
    ELSE [s EXCEPT !.key = <<>>, !.value = <<>>, !.parsedKey = FALSE,
                   !.pc = "keyvalue"]

\* as finishHeader, but the main section is stored along with the named one
finishHeaderStoresMain(s) ==
    LET name == trim(s.section)
        t == [s EXCEPT !.section = name]
    IN  IF name = <<>>
        THEN Throw(t, "Invalid section name")
        ELSE [t EXCEPT !.result = AssignSection(DataSubscript(s.result, <<>>),
                                                name, DefaultSection),
                       !.parsedSection = FALSE, !.pc = "outer"]

\* after the header loop: trim, reject an empty name, result[section] = Section{}
finishHeader(s) ==
    LET name == trim(s.section)
        t == [s EXCEPT !.section = name]
    IN  IF name = <<>>
        THEN Throw(t, "Invalid section name")
        ELSE [t EXCEPT !.result = AssignSection(s.result, name, DefaultSection),
                       !.parsedSection = FALSE, !.pc = "outer"]

\* as headerScan, but a line end or a ';' before ']' closes the header
headerScanClosesAtEnd(s, c) ==
    IF s.iterator = End(s) \/ isNewline(c)
    THEN finishHeader([s EXCEPT !.iterator = @ + 1])
    ELSE IF c = SEMI
    THEN [s EXCEPT !.iterator = @ + 1, !.pc = "headerComment"]
    ELSE IF c # RBR /\ c # SP /\ c # TAB /\ s.parsedSection
    THEN Throw(s, "Unexpected character after section")
    ELSE LET closed == s.parsedSection \/ c = RBR
         IN  [s EXCEPT !.parsedSection = closed,
                       !.section = IF closed THEN @ ELSE Append(@, c),
                       !.iterator = @ + 1]

\* one iteration of the for (;;) loop of the header branch
headerScan(s, c) ==
    IF s.iterator = End(s) \/ isNewline(c)
    THEN IF ~s.parsedSection
         THEN Throw(s, "Unexpected end of section")
         ELSE finishHeader([s EXCEPT !.iterator = @ + 1])
    ELSE IF c = SEMI
    THEN IF ~s.parsedSection
         THEN Throw([s EXCEPT !.iterator = @ + 1], "Unexpected comment")
         ELSE [s EXCEPT !.iterator = @ + 1, !.pc = "headerComment"]
    ELSE IF c # RBR /\ c # SP /\ c # TAB /\ s.parsedSection
    THEN Throw(s, "Unexpected character after section")
    ELSE LET closed == s.parsedSection \/ c = RBR
         IN  [s EXCEPT !.parsedSection = closed,
                       !.section = IF closed THEN @ ELSE Append(@, c),
                       !.iterator = @ + 1]

\* one iteration of the while loop that skips a comment after a header
headerComment(s, c) ==
    IF s.iterator = End(s)
    THEN finishHeader(s)
    ELSE IF isNewline(c)
    THEN finishHeader([s EXCEPT !.iterator = @ + 1])
    ELSE [s EXCEPT !.iterator = @ + 1]

\* one iteration of while (++iterator != end) of a comment line
commentScan(s, c) ==
    LET next == s.iterator + 1
    IN  IF next = End(s)
        THEN [s EXCEPT !.iterator = next, !.pc = "outer"]
        ELSE IF isNewline(c)
        THEN [s EXCEPT !.iterator = next + 1, !.pc = "outer"]
        ELSE [s EXCEPT !.iterator = next]

\* as finishKeyValue, but a line without '=' is rejected
finishKeyValueNeedsEq(s) ==
    IF s.key = <<>> \/ ~s.parsedKey
    THEN Throw(s, "Invalid key name")
    ELSE [s EXCEPT !.result = AssignValue(s.result, s.section, trim(s.key), trim(s.value)),
                   !.key = <<>>, !.value = <<>>, !.parsedKey = FALSE,
                   !.pc = "outer"]

\* as finishKeyValue, but an empty key is stored like any other
finishKeyValueAnyKey(s) ==
    [s EXCEPT !.result = AssignValue(s.result, s.section, trim(s.key), trim(s.value)),
              !.key = <<>>, !.value = <<>>, !.parsedKey = FALSE,
              !.pc = "outer"]

\* after the key/value loop: reject an empty key, trim, result[section][key] = value
finishKeyValue(s) ==
    IF s.key = <<>>
    THEN Throw(s, "Invalid key name")
    ELSE [s EXCEPT !.result = AssignValue(s.result, s.section, trim(s.key), trim(s.value)),
                   !.key = <<>>, !.value = <<>>, !.parsedKey = FALSE,
                   !.pc = "outer"]

\* as keyValueScan, but a second '=' becomes part of the value
keyValueScanSecondEq(s, c) ==
    IF s.iterator = End(s)
    THEN finishKeyValue(s)
    ELSE IF isNewline(c)
    THEN finishKeyValue([s EXCEPT !.iterator = @ + 1])
    ELSE IF c = EQ /\ ~s.parsedKey
    THEN [s EXCEPT !.parsedKey = TRUE, !.iterator = @ + 1]
    ELSE IF c = SEMI
    THEN [s EXCEPT !.iterator = @ + 1, !.pc = "keyvalueComment"]
    ELSE IF ~s.parsedKey
    THEN [s EXCEPT !.key = Append(@, c), !.iterator = @ + 1]
    ELSE [s EXCEPT !.value = Append(@, c), !.iterator = @ + 1]

\* as keyValueScan, but ';' starts a comment only before the '='
keyValueScanSemiInValue(s, c) ==
    IF s.iterator = End(s)
    THEN finishKeyValue(s)
    ELSE IF isNewline(c)
    THEN finishKeyValue([s EXCEPT !.iterator = @ + 1])
    ELSE IF c = EQ
    THEN IF ~s.parsedKey
         THEN [s EXCEPT !.parsedKey = TRUE, !.iterator = @ + 1]
         ELSE Throw(s, "Unexpected character")
    ELSE IF c = SEMI /\ ~s.parsedKey
    THEN [s EXCEPT !.iterator = @ + 1, !.pc = "keyvalueComment"]
    ELSE IF ~s.parsedKey
    THEN [s EXCEPT !.key = Append(@, c), !.iterator = @ + 1]
    ELSE [s EXCEPT !.value = Append(@, c), !.iterator = @ + 1]

\* one iteration of the while loop of the key/value branch
keyValueScan(s, c) ==
    IF s.iterator = End(s)
    THEN finishKeyValue(s)
    ELSE IF isNewline(c)
    THEN finishKeyValue([s EXCEPT !.iterator = @ + 1])
    ELSE IF c = EQ
    THEN IF ~s.parsedKey
         THEN [s EXCEPT !.parsedKey = TRUE, !.iterator = @ + 1]
         ELSE Throw(s, "Unexpected character")
    ELSE IF c = SEMI
    THEN [s EXCEPT !.iterator = @ + 1, !.pc = "keyvalueComment"]
    ELSE IF ~s.parsedKey
    THEN [s EXCEPT !.key = Append(@, c), !.iterator = @ + 1]
    ELSE [s EXCEPT !.value = Append(@, c), !.iterator = @ + 1]

\* one iteration of the while loop that skips a comment after a key/value
keyValueComment(s, c) ==
    IF s.iterator = End(s)
    THEN finishKeyValue(s)
    ELSE IF isNewline(c)
    THEN finishKeyValue([s EXCEPT !.iterator = @ + 1])
    ELSE [s EXCEPT !.iterator = @ + 1]

\* the parser has returned, thrown or faulted
Final == {"done", "error", "crash"}

\* the elements a dereference at the read position can yield: the element of
\* the input; nothing is read at end (NUL stands for it); past end the read is
\* undefined: any element, for MaxOverrun positions
Deref(s) ==
    IF ReadPos(s) <= Len(s.input) THEN {toChar(s.input[ReadPos(s)])}
    ELSE IF ReadPos(s) = End(s) THEN {NUL}
    ELSE IF ReadPos(s) <= End(s) + MaxOverrun THEN Chars
    ELSE {}

\* the step of parse from s when it reads c
step(s, c) ==
    CASE s.pc = "outer" ->
            IF s.iterator = End(s) THEN [s EXCEPT !.pc = "done"] ELSE dispatch(s, c)
      [] s.pc = "header" -> headerScan(s, c)
      [] s.pc = "headerComment" -> headerComment(s, c)
      [] s.pc = "comment" -> commentScan(s, c)
      [] s.pc = "keyvalue" -> keyValueScan(s, c)
      [] s.pc = "keyvalueComment" -> keyValueComment(s, c)

RECURSIVE run(_)
\* parse run to its end from s; "undefined" when it dereferences past end
run(s) ==
    IF s.pc \in Final THEN s
    ELSE IF OutOfBounds(s) THEN [s EXCEPT !.pc = "undefined"]
    ELSE run(step(s, CHOOSE c \in Deref(s) : TRUE))

\* ini::parse as a function of its input
parse(t) == run(Start(t))

\* as encodeValues, but an entry with an empty value is left out
RECURSIVE encodeValuesSkipsEmpty(_)
encodeValuesSkipsEmpty(values) ==
    IF DOMAIN values = {} THEN <<>>
    ELSE LET k == FirstKey(DOMAIN values)
         IN  (IF values[k] = <<>> THEN <<>> ELSE k \o <<EQ>> \o values[k] \o <<LF>>)
             \o encodeValuesSkipsEmpty(Erase(values, k))

(***************************************************************************)
(* The encoder.                                                            *)
(***************************************************************************)
\* encode's inner loop: key=value\n for every entry, in key order
RECURSIVE encodeValues(_)
encodeValues(values) ==
    IF DOMAIN values = {} THEN <<>>
    ELSE LET k == FirstKey(DOMAIN values)
         IN  k \o <<EQ>> \o values[k] \o <<LF>> \o encodeValues(Erase(values, k))

\* as encodeSections, but the header of the section named "" is written too
RECURSIVE encodeSectionsAllHeaders(_)
encodeSectionsAllHeaders(sections) ==
    IF DOMAIN sections = {} THEN <<>>
    ELSE LET n == FirstKey(DOMAIN sections)
         IN  <<LBR>> \o n \o <<RBR, LF>>
             \o encodeValues(sections[n].values)
             \o encodeSectionsAllHeaders(Erase(sections, n))

\* encode's outer loop: [name]\n unless the name is empty, then the entries
RECURSIVE encodeSections(_)
encodeSections(sections) ==
    IF DOMAIN sections = {} THEN <<>>
    ELSE LET n == FirstKey(DOMAIN sections)
         IN  (IF n # <<>> THEN <<LBR>> \o n \o <<RBR, LF>> ELSE <<>>)
             \o encodeValues(sections[n].values)
             \o encodeSections(Erase(sections, n))

\* encode(data, byteOrderMark)
encode(sections, byteOrderMark) ==
    (IF byteOrderMark THEN utf8ByteOrderMark ELSE <<>>) \o encodeSections(sections)

(***************************************************************************)
(* Actions of the parser.                                                  *)
(***************************************************************************)
\* the outer loop ends: return result
Return ==
    /\ pc = "outer"
    /\ iterator = End(State)
    /\ pc' = "done"
    /\ UNCHANGED <<input, iterator, section, parsedSection, key, value,
                   parsedKey, result, error, data, ret>>

Dispatch ==
    /\ pc = "outer"
    /\ iterator # End(State)
    /\ \E c \in Deref(State) : Set(dispatch(State, c))
    /\ UNCHANGED <<data, ret>>

HeaderScan ==
    /\ pc = "header"
    /\ \E c \in Deref(State) : Set(headerScan(State, c))
    /\ UNCHANGED <<data, ret>>

HeaderComment ==
    /\ pc = "headerComment"
    /\ \E c \in Deref(State) : Set(headerComment(State, c))
    /\ UNCHANGED <<data, ret>>

CommentScan ==
    /\ pc = "comment"
    /\ \E c \in Deref(State) : Set(commentScan(State, c))
    /\ UNCHANGED <<data, ret>>

KeyValueScan ==
    /\ pc = "keyvalue"
    /\ \E c \in Deref(State) : Set(keyValueScan(State, c))
    /\ UNCHANGED <<data, ret>>

KeyValueComment ==
    /\ pc = "keyvalueComment"
    /\ \E c \in Deref(State) : Set(keyValueComment(State, c))
    /\ UNCHANGED <<data, ret>>

\* a dereference past end faults
Fault ==
    /\ pc \notin Final
    /\ OutOfBounds(State)
    /\ pc' = "crash"
    /\ UNCHANGED <<input, iterator, section, parsedSection, key, value,
                   parsedKey, result, error, data, ret>>

ParserNext ==
    \/ Return
    \/ Dispatch
    \/ HeaderScan
    \/ HeaderComment
    \/ CommentScan
    \/ KeyValueScan
    \/ KeyValueComment
    \/ Fault

\* the outcome of a call on data: the call, its arguments, whether find() hit,
\* and what it returned ("section", "value") or threw ("RangeError")
Outcome(op, n, k, found, outcome, sec, v, what) ==
    [op |-> op, name |-> n, key |-> k, found |-> found, outcome |-> outcome,
     section |-> sec, value |-> v, what |-> what]

\* no call made on data yet
NoCall == Outcome("none", <<>>, <<>>, FALSE, "none", DefaultSection, <<>>, "")

\* parse is called on input t; data is not used
InitParse(t) ==
    /\ input = t
    /\ pc = "outer"
    /\ iterator = Start(t).iterator
    /\ section = <<>>
    /\ parsedSection = FALSE
    /\ key = <<>>
    /\ value = <<>>
    /\ parsedKey = FALSE
    /\ result = EmptyMap
    /\ error = ""
    /\ data = EmptyMap
    /\ ret = NoCall

(***************************************************************************)
(* Specification Spec: parse on every input of at most MaxLen characters.  *)
(***************************************************************************)
\* one letter is enough in inputs this short
InputChars == Chars \ {ChB}

Inputs == SeqsUpTo(InputChars, MaxLen)

Init == \E t \in Inputs : InitParse(t)

Next == ParserNext

Spec == Init /\ [][Next]_vars

\* parse always gets to take its next step
FairSpec == Spec /\ WF_vars(Next)

(***************************************************************************)
(* Specification SpecLines: parse on inputs of at most MaxLines lines,     *)
(* each line terminated by '\n', the last one with or without it.          *)
(***************************************************************************)
LineSet ==
    { <<LBR, ChA, RBR>>,                        \* [a]
      <<LBR, ChB, RBR>>,                        \* [b]
      <<LBR, RBR>>,                             \* []
      <<LBR, ChA, RBR, RBR>>,                   \* [a]]
      <<LBR, SP, ChA, SP, RBR, SEMI, ChB>>,     \* [ a ];b
      <<ChA, EQ, ChB>>,                         \* a=b
      <<ChA, EQ>>,                              \* a=
      <<ChB, SEMI, ChA>>,                       \* b;a
      <<SEMI, ChA>>,                            \* ;a
      <<>> }                                    \* an empty line

RECURSIVE JoinLines(_)
\* the lines of ls, each followed by '\n'
JoinLines(ls) ==
    IF ls = <<>> THEN <<>> ELSE Head(ls) \o <<LF>> \o JoinLines(Tail(ls))

LineInputs ==
    LET joined == {JoinLines(ls) : ls \in SeqsUpTo(LineSet, MaxLines)}
    IN  joined \cup {SubSeq(t, 1, Len(t) - 1) : t \in joined \ {<<>>}}

InitLines == \E t \in LineInputs : InitParse(t)

SpecLines == InitLines /\ [][Next]_vars

(***************************************************************************)
(* Specification SpecBom: parse on inputs that start with the byte-order   *)
(* mark, with a proper prefix of it, or with neither.                      *)
(***************************************************************************)
BomChars == {utf8ByteOrderMark[1], utf8ByteOrderMark[2], utf8ByteOrderMark[3],
             LF, SEMI, EQ, LBR, RBR}

BomInputs ==
    {SubSeq(utf8ByteOrderMark, 1, n) \o t :
        n \in 0..Len(utf8ByteOrderMark), t \in SeqsUpTo(BomChars, MaxLen - 1)}

InitBom == \E t \in BomInputs : InitParse(t)

SpecBom == InitBom /\ [][Next]_vars

(***************************************************************************)
(* Specification SpecBytes: parse on sequences of bytes (0..255) and on    *)
(* the sequences of chars (-128..127) with the same 8-bit values.          *)
(***************************************************************************)
\* the bytes of U+0101 in UTF-8, and the format's characters
ByteChars == {196, 129, EQ, LBR, RBR, LF, SEMI}

\* a byte sequence as a sequence of signed chars
AsChars(t) == [i \in 1..Len(t) |-> IF t[i] >= 128 THEN t[i] - 256 ELSE t[i]]

ByteInputs ==
    LET bytes == SeqsUpTo(ByteChars, MaxLen)
    IN  bytes \cup {AsChars(t) : t \in bytes}

InitBytes == \E t \in ByteInputs : InitParse(t)

SpecBytes == InitBytes /\ [][Next]_vars

(***************************************************************************)
(* Specification SpecData: a caller's calls on a Data object and on the    *)
(* Sections in it.                                                         *)
(***************************************************************************)
\* section names, keys and values the caller uses
Names == {<<>>, <<ChA>>, <<ChB>>}
Keys == {<<ChA>>, <<ChB>>}
Values == {<<>>, <<ChA>>}

\* as DataAt, but a missing section is answered with a default Section
DataAtDefault(sections, n) ==
    IF n \in DOMAIN sections
    THEN Outcome("Data::operator[] const", n, <<>>, TRUE, "section",
                 sections[n], <<>>, "")
    ELSE Outcome("Data::operator[] const", n, <<>>, FALSE, "section",
                 DefaultSection, <<>>, "")

\* Data::operator[] const: the section, or RangeError
DataAt(sections, n) ==
    IF n \in DOMAIN sections
    THEN Outcome("Data::operator[] const", n, <<>>, TRUE, "section",
                 sections[n], <<>>, "")
    ELSE Outcome("Data::operator[] const", n, <<>>, FALSE, "RangeError",
                 DefaultSection, <<>>, "Section does not exist")

\* Section::operator[] const on the section stored under n: the value, or RangeError
SectionAt(sections, n, k) ==
    IF k \in DOMAIN sections[n].values
    THEN Outcome("Section::operator[] const", n, k, TRUE, "value",
                 DefaultSection, sections[n].values[k], "")
    ELSE Outcome("Section::operator[] const", n, k, FALSE, "RangeError",
                 DefaultSection, <<>>, "Value does not exist")

\* data[n], mutable
DataIndex ==
    \E n \in Names :
        /\ data' = DataSubscript(data, n)
        /\ ret' = Outcome("Data::operator[]", n, <<>>, hasSection(data, n),
                          "section", data'[n], <<>>, "")
        /\ UNCHANGED parserVars

\* constData[n]
DataIndexConst ==
    \E n \in Names :
        /\ ret' = DataAt(data, n)
        /\ UNCHANGED data
        /\ UNCHANGED parserVars

\* section[k], mutable, on the section stored under n
SectionIndex ==
    \E n \in DOMAIN data, k \in Keys :
        /\ data' = [data EXCEPT ![n] = SectionSubscript(@, k)]
        /\ ret' = Outcome("Section::operator[]", n, k, hasValue(data[n], k),
                          "value", DefaultSection, data'[n].values[k], "")
        /\ UNCHANGED parserVars

\* constSection[k] on the section stored under n
SectionIndexConst ==
    \E n \in DOMAIN data, k \in Keys :
        /\ ret' = SectionAt(data, n, k)
        /\ UNCHANGED data
        /\ UNCHANGED parserVars

\* data[n] = Section{}
DataAssign ==
    \E n \in Names :
        /\ data' = AssignSection(data, n, DefaultSection)
        /\ ret' = Outcome("data[n] = Section{}", n, <<>>, hasSection(data, n),
                          "section", DefaultSection, <<>>, "")
        /\ UNCHANGED parserVars

\* data[n][k] = v
ValueAssign ==
    \E n \in Names, k \in Keys, v \in Values :
        /\ data' = AssignValue(data, n, k, v)
        /\ ret' = Outcome("data[n][k] = v", n, k,
                          hasSection(data, n) /\ hasValue(data[n], k),
                          "value", DefaultSection, v, "")
        /\ UNCHANGED parserVars

\* section.setValue(k, v) on the section stored under n
SetValue ==
    \E n \in DOMAIN data, k \in Keys, v \in Values :
        /\ data' = [data EXCEPT ![n] = setValue(@, k, v)]
        /\ ret' = Outcome("Section::setValue", n, k, hasValue(data[n], k),
                          "void", DefaultSection, v, "")
        /\ UNCHANGED parserVars

\* section.deleteValue(k) on the section stored under n
DeleteValue ==
    \E n \in DOMAIN data, k \in Keys :
        /\ data' = [data EXCEPT ![n] = deleteValue(@, k)]
        /\ ret' = Outcome("Section::deleteValue", n, k, hasValue(data[n], k),
                          "void", DefaultSection, <<>>, "")
        /\ UNCHANGED parserVars

\* data.eraseSection(n)
EraseSection ==
    \E n \in Names :
        /\ data' = eraseSection(data, n)
        /\ ret' = Outcome("Data::eraseSection", n, <<>>, hasSection(data, n),
                          "void", DefaultSection, <<>>, "")
        /\ UNCHANGED parserVars

\* encode(data) and encode(data, true)
Encode ==
    \E byteOrderMark \in BOOLEAN :
        /\ ret' = Outcome(IF byteOrderMark THEN "encode(data, true)" ELSE "encode(data)",
                          <<>>, <<>>, FALSE, "text", DefaultSection,
                          encode(data, byteOrderMark), "")
        /\ UNCHANGED data
        /\ UNCHANGED parserVars

\* for (auto& i : data) and for (auto& i : constData)
IterateData ==
    \E view \in {"Data::begin", "Data::begin const"} :
        /\ ret' = Outcome(view, <<>>, <<>>, FALSE, "visited", DefaultSection,
                          visit(data), "")
        /\ UNCHANGED data
        /\ UNCHANGED parserVars

\* for (auto& i : section) and for (auto& i : constSection), section stored under n
IterateSection ==
    \E n \in DOMAIN data, view \in {"Section::begin", "Section::begin const"} :
        /\ ret' = Outcome(view, n, <<>>, FALSE, "visited", DefaultSection,
                          visit(data[n].values), "")
        /\ UNCHANGED data
        /\ UNCHANGED parserVars

DataNext ==
    \/ DataIndex
    \/ DataIndexConst
    \/ SectionIndex
    \/ SectionIndexConst
    \/ DataAssign
    \/ ValueAssign
    \/ SetValue
    \/ DeleteValue
    \/ EraseSection
    \/ Encode

\* a default-constructed Data; no parse is running
InitData ==
    /\ input = <<>>
    /\ pc = "idle"
    /\ iterator = 1
    /\ section = <<>>
    /\ parsedSection = FALSE
    /\ key = <<>>
    /\ value = <<>>
    /\ parsedKey = FALSE
    /\ result = EmptyMap
    /\ error = ""
    /\ data = EmptyMap
    /\ ret = NoCall

SpecData == InitData /\ [][DataNext]_vars

(***************************************************************************)
(* Specification SpecIter: Documents built by insertions alone, and        *)
(* iterated.                                                               *)
(***************************************************************************)
IterNext ==
    \/ DataIndex
    \/ ValueAssign
    \/ IterateData
    \/ IterateSection

SpecIter == InitData /\ [][IterNext]_vars

(***************************************************************************)
(* Specification SpecEncode: Documents built by assignments alone, and     *)
(* encoded.                                                                *)
(***************************************************************************)
EncodeNext ==
    \/ ValueAssign
    \/ Encode

SpecEncode == InitData /\ [][EncodeNext]_vars

(***************************************************************************)
(* Specification SpecRead: Documents built by assignments, and read.       *)
(***************************************************************************)
\* data.hasSection(n)
HasSection ==
    \E n \in Names :
        /\ ret' = Outcome("Data::hasSection", n, <<>>, hasSection(data, n),
                          "bool", DefaultSection, <<>>, "")
        /\ UNCHANGED data
        /\ UNCHANGED parserVars

\* section.hasValue(k) on the section stored under n
HasValue ==
    \E n \in DOMAIN data, k \in Keys :
        /\ ret' = Outcome("Section::hasValue", n, k, hasValue(data[n], k),
                          "bool", DefaultSection, <<>>, "")
        /\ UNCHANGED data
        /\ UNCHANGED parserVars

\* section.getValue(k, defaultValue) on the section stored under n
GetValue ==
    \E n \in DOMAIN data, k \in Keys, defaultValue \in Values :
        /\ data' = [data EXCEPT ![n] = getValueSection(@, k)]
        /\ ret' = Outcome("Section::getValue", n, k, hasValue(data[n], k),
                          "value", DefaultSection,
                          getValue(data[n], k, defaultValue), "")
        /\ UNCHANGED parserVars

\* data.getSize(); the size is the one element of the returned value
GetSize ==
    /\ ret' = Outcome("Data::getSize", <<>>, <<>>, FALSE, "size", DefaultSection,
                      <<getSize(data)>>, "")
    /\ UNCHANGED data
    /\ UNCHANGED parserVars

\* section.getSize() on the section stored under n
GetSectionSize ==
    \E n \in DOMAIN data :
        /\ ret' = Outcome("Section::getSize", n, <<>>, FALSE, "size", DefaultSection,
                          <<getSize(data[n].values)>>, "")
        /\ UNCHANGED data
        /\ UNCHANGED parserVars

ReadNext ==
    \/ ValueAssign
    \/ HasSection
    \/ HasValue
    \/ GetValue
    \/ GetSize
    \/ GetSectionSize
    \/ DataIndexConst
    \/ SectionIndexConst
    \/ Encode

SpecRead == InitData /\ [][ReadNext]_vars

(***************************************************************************)
(* The format as the specification describes it, line by line, for the      *)
(* statements about parse: what each line of an input is and what it        *)
(* should contribute.  None of this is used by the model of the code.       *)
(***************************************************************************)
Blanks == {SP, TAB}
Terminators == {LF, CR}

\* least index of an element of s in C, Len(s) + 1 when there is none
First(s, C) ==
    LET hits == {i \in 1..Len(s) : s[i] \in C}
    IN  IF hits = {} THEN Len(s) + 1 ELSE CHOOSE i \in hits : \A j \in hits : i <= j

\* s from its first to its last non-blank element
Stripped(s) ==
    LET solid == {i \in 1..Len(s) : s[i] \notin Blanks}
    IN  IF solid = {} THEN <<>>
        ELSE SubSeq(s, CHOOSE i \in solid : \A j \in solid : i <= j,
                       CHOOSE i \in solid : \A j \in solid : i >= j)

RECURSIVE LinesOf(_)
\* the lines of t: the runs of elements between line terminators
LinesOf(t) ==
    IF t = <<>> THEN <<>>
    ELSE LET n == First(t, Terminators)
         IN  <<SubSeq(t, 1, n - 1)>> \o LinesOf(SubSeq(t, n + 1, Len(t)))

\* a line without its leading blanks
Body(l) == SubSeq(l, First(l, {l[i] : i \in 1..Len(l)} \ Blanks), Len(l))

\* what a line is: "blank", "header", "comment" or "entry"
Kind(l) ==
    IF Body(l) = <<>> THEN "blank"
    ELSE IF Body(l)[1] = LBR THEN "header"
    ELSE IF Body(l)[1] = SEMI THEN "comment"
    ELSE "entry"

\* the name of a header line: the text between '[' and the first ']', trimmed
HeaderName(l) == Stripped(SubSeq(Body(l), 2, First(Body(l), {RBR}) - 1))

\* an entry line up to its first ';'
EntryText(l) == SubSeq(Body(l), 1, First(Body(l), {SEMI}) - 1)

\* key and value of an entry line: the trimmed texts before and after the first '='
EntryKey(l) == Stripped(SubSeq(EntryText(l), 1, First(EntryText(l), {EQ}) - 1))
EntryValue(l) ==
    Stripped(SubSeq(EntryText(l), First(EntryText(l), {EQ}) + 1, Len(EntryText(l))))

\* the lines of the input
InputLines == LinesOf(input)

\* the indices of the header lines and of the entry lines of ls
Headers(ls) == {i \in 1..Len(ls) : Kind(ls[i]) = "header"}
Entries(ls) == {i \in 1..Len(ls) : Kind(ls[i]) = "entry"}

\* the section line i of ls belongs to: the name of the nearest header before
\* it, the main section "" when there is none
SectionOf(ls, i) ==
    LET before == {h \in Headers(ls) : h < i}
    IN  IF before = {} THEN <<>>
        ELSE HeaderName(ls[CHOOSE h \in before : \A g \in before : g <= h])

\* the entries of the lines from..to of ls as a map, the last line of a key winning
EntriesMap(ls, from, to) ==
    LET es == {i \in Entries(ls) : from <= i /\ i <= to}
        last(k) == CHOOSE i \in es :
                       /\ EntryKey(ls[i]) = k
                       /\ \A j \in es : EntryKey(ls[j]) = k => j <= i
    IN  [k \in {EntryKey(ls[i]) : i \in es} |-> EntryValue(ls[last(k)])]

\* all (key, value) pairs stored in the sections of a Data
StoredPairs(sections) ==
    UNION {{<<k, sections[n].values[k]>> : k \in DOMAIN sections[n].values} :
           n \in DOMAIN sections}

(***************************************************************************)
(* C1.  Re-declaring a section clears it: when parse succeeds on an input   *)
(* in which header N (a non-empty name) occurs more than once, section N of *)
(* the result holds exactly the entries that follow the last header N up to *)
(* the next header.                                                         *)
(***************************************************************************)
C1_RedeclaredSectionHoldsLastEntries ==
    pc = "done" =>
        LET ls == InputLines
        IN  \A i \in Headers(ls), j \in Headers(ls) :
                (i < j /\ HeaderName(ls[i]) = HeaderName(ls[j])
                       /\ HeaderName(ls[j]) # <<>>
                       /\ \A h \in Headers(ls) :
                              HeaderName(ls[h]) = HeaderName(ls[j]) => h <= j)
                => LET later == {h \in Headers(ls) : h > j}
                       stop == IF later = {} THEN Len(ls)
                               ELSE (CHOOSE h \in later : \A g \in later : h <= g) - 1
                   IN  /\ HeaderName(ls[j]) \in DOMAIN result
                       /\ result[HeaderName(ls[j])].values = EntriesMap(ls, j + 1, stop)

(***************************************************************************)
(* C2.  When parse succeeds on an input whose headers have non-empty names,  *)
(* the named sections of the result are exactly the trimmed names of the    *)
(* headers, and every entry is stored in the                                *)
(* section of the nearest preceding header (the main section "" when none   *)
(* precedes it), unless that section is declared again after the entry.     *)
(***************************************************************************)
C2_SectionsAreHeaderNames ==
    (pc = "done" /\ \A h \in Headers(InputLines) : HeaderName(InputLines[h]) # <<>>) =>
        LET ls == InputLines
        IN  /\ DOMAIN result \ {<<>>} = {HeaderName(ls[h]) : h \in Headers(ls)}
            /\ \A i \in Entries(ls) :
                   (\A h \in Headers(ls) :
                        h > i => HeaderName(ls[h]) # SectionOf(ls, i))
                   => /\ SectionOf(ls, i) \in DOMAIN result
                      /\ EntryKey(ls[i]) \in DOMAIN result[SectionOf(ls, i)].values

(***************************************************************************)
(* C3.  A header that ends at end-of-input is accepted when its ']' was     *)
(* seen: on "[s]", s a non-empty trimmed name, parse ends by returning a    *)
(* Document whose only section is s, with no entries; on "[s" it ends with  *)
(* ParseError.                                                              *)
(***************************************************************************)
\* name is a non-empty trimmed section name of ordinary characters
IsName(name) ==
    /\ name # <<>>
    /\ Stripped(name) = name
    /\ \A i \in 1..Len(name) : name[i] \notin Terminators \cup {LBR, RBR, SEMI, EQ}

C3_HeaderAtEndOfInput ==
    (pc \in Final /\ input # <<>> /\ input[1] = LBR) =>
        /\ (input[Len(input)] = RBR /\ IsName(SubSeq(input, 2, Len(input) - 1)))
           => /\ pc = "done"
              /\ DOMAIN result = {SubSeq(input, 2, Len(input) - 1)}
              /\ result[SubSeq(input, 2, Len(input) - 1)].values = EmptyMap
        /\ IsName(SubSeq(input, 2, Len(input))) => pc = "error"

(***************************************************************************)
(* C4.  End-of-input is equivalent to end-of-line: for an input t that      *)
(* does not end in a line terminator, parse(t) and parse(t followed by      *)
(* '\n') both return equal Documents or both raise ParseError.              *)
(***************************************************************************)
\* two finished parses have the same outcome
SameOutcome(p, q) ==
    \/ p.pc = "done" /\ q.pc = "done" /\ p.result = q.result
    \/ p.pc = "error" /\ q.pc = "error"

C4_EndOfInputIsEndOfLine ==
    (pc \in Final /\ (input = <<>> \/ input[Len(input)] \notin Terminators))
    => SameOutcome(State, parse(input \o <<LF>>))

(***************************************************************************)
(* C5.  parse terminates on every input by returning a Document or raising  *)
(* ParseError: in every state it has done one of the two or can take        *)
(* another step.                                                            *)
(***************************************************************************)
C5_ParseTerminates == pc \in {"done", "error"} \/ ENABLED Next

(***************************************************************************)
(* C6.  A single line k=v without header, comment or second '=' yields one  *)
(* section, the main section "", holding the one entry trim(k) -> trim(v).  *)
(***************************************************************************)
\* the input is one line k=v: one '=', no ';', no line terminator, k not blank
IsKeyValueLine(t) ==
    /\ Cardinality({i \in 1..Len(t) : t[i] = EQ}) = 1
    /\ \A i \in 1..Len(t) : t[i] \notin Terminators \cup {SEMI}
    /\ Stripped(SubSeq(t, 1, First(t, {EQ}) - 1)) # <<>>

\* parse has returned the main section alone, holding k -> v alone
IsSingleEntry(k, v) ==
    /\ pc = "done"
    /\ DOMAIN result = {<<>>}
    /\ DOMAIN result[<<>>].values = {k}
    /\ result[<<>>].values[k] = v

\* the claim as worded: k itself does not start with '[' or ';'
C6_SingleEntryAsWorded ==
    (pc \in Final /\ IsKeyValueLine(input) /\ input[1] \notin {LBR, SEMI})
    => IsSingleEntry(Stripped(SubSeq(input, 1, First(input, {EQ}) - 1)),
                     Stripped(SubSeq(input, First(input, {EQ}) + 1, Len(input))))

\* the claim with the condition on the trimmed key: trim(k) does not start
\* with '[' or ';'
C6_SingleEntry ==
    (pc \in Final /\ IsKeyValueLine(input) /\ Body(input)[1] \notin {LBR, SEMI})
    => IsSingleEntry(Stripped(SubSeq(input, 1, First(input, {EQ}) - 1)),
                     Stripped(SubSeq(input, First(input, {EQ}) + 1, Len(input))))

\* a line whose value follows a blank has been parsed
C6_Witness ==
    /\ pc = "done"
    /\ IsKeyValueLine(input)
    /\ First(input, {EQ}) + 2 <= Len(input)
    /\ input[First(input, {EQ}) + 1] \in Blanks
    /\ \E k \in DOMAIN result[<<>>].values : result[<<>>].values[k] # <<>>

(***************************************************************************)
(* C7.  An input made only of blanks, line terminators and ';' comment      *)
(* lines parses to a Document with zero sections: parse never fails on it   *)
(* and never stores anything.                                               *)
(***************************************************************************)
\* every line of t is blank or a comment
IsEmptyContent(t) ==
    LET ls == LinesOf(t)
    IN  \A i \in 1..Len(ls) : Kind(ls[i]) \in {"blank", "comment"}

C7_NoContentNoSections ==
    IsEmptyContent(input) =>
        /\ pc \in {"outer", "comment", "done"}
        /\ pc = "done" \/ ENABLED Next
        /\ result = EmptyMap

\* a comment line and a blank line have been parsed
C7_Witness ==
    /\ pc = "done"
    /\ IsEmptyContent(input)
    /\ \E i \in 1..Len(input) : input[i] = SEMI
    /\ \E i \in 1..Len(input) : input[i] = CR
    /\ \E i \in 1..Len(input) : input[i] \in Blanks

(***************************************************************************)
(* C8.  A ';' on a key/value line truncates the entry: when parse succeeds, *)
(* no stored key or value contains ';', and the keys and values stored are  *)
(* those of the entry lines, each the trimmed text before the first ';' of  *)
(* its line.                                                                *)
(***************************************************************************)
C8_CommentTruncatesEntry ==
    pc = "done" =>
        LET ls == InputLines
            pairs == StoredPairs(result)
        IN  /\ \A p \in pairs :
                   /\ \A i \in 1..Len(p[1]) : p[1][i] # SEMI
                   /\ \A i \in 1..Len(p[2]) : p[2][i] # SEMI
            /\ pairs \subseteq {<<EntryKey(ls[i]), EntryValue(ls[i])>> : i \in Entries(ls)}
            /\ {p[1] : p \in pairs} = {EntryKey(ls[i]) : i \in Entries(ls)}

\* an entry with a ';' after its value has been stored
C8_Witness ==
    /\ pc = "done"
    /\ \E i \in 2..Len(input) : input[i] = SEMI /\ input[i - 1] # EQ /\ i > First(input, {EQ})
    /\ \E p \in StoredPairs(result) : p[2] # <<>>

(***************************************************************************)
(* C9.  Strict lookup fails on absence: constData[n] raises RangeError      *)
(* when no section n is stored and returns the stored section otherwise;    *)
(* constSection[k] raises RangeError when the section has no key k and      *)
(* returns the stored value otherwise.                                      *)
(***************************************************************************)
C9_StrictLookup ==
    /\ ret.op = "Data::operator[] const" =>
           IF ret.name \in DOMAIN data
           THEN ret.outcome = "section" /\ ret.section = data[ret.name]
           ELSE ret.outcome = "RangeError"
    /\ ret.op = "Section::operator[] const" =>
           IF ret.key \in DOMAIN data[ret.name].values
           THEN ret.outcome = "value" /\ ret.value = data[ret.name].values[ret.key]
           ELSE ret.outcome = "RangeError"

\* a lookup of a missing section has raised RangeError although other sections exist
C9_Witness ==
    /\ ret.op = "Data::operator[] const"
    /\ ret.outcome = "RangeError"
    /\ ret.name \notin DOMAIN data
    /\ data # EmptyMap

(***************************************************************************)
(* C10.  Auto-creating access never fails: data[n] returns the section      *)
(* stored under n; when n was absent, an empty Section is inserted under n, *)
(* the size grows by one and the other sections are unchanged; when n was   *)
(* present nothing changes.  The same holds for section[k] with an empty    *)
(* string.                                                                  *)
(***************************************************************************)
\* m2 is m with key k, absent in m, inserted with value v
Inserted(m, m2, k, v) ==
    /\ k \notin DOMAIN m
    /\ DOMAIN m2 = DOMAIN m \cup {k}
    /\ Cardinality(DOMAIN m2) = Cardinality(DOMAIN m) + 1
    /\ m2[k] = v
    /\ \A x \in DOMAIN m : m2[x] = m[x]

C10_AutoCreateStep ==
    /\ ret'.op = "Data::operator[]" =>
           /\ ret'.outcome = "section"
           /\ ret'.section = data'[ret'.name]
           /\ IF ret'.name \in DOMAIN data
              THEN data' = data
              ELSE Inserted(data, data', ret'.name, DefaultSection)
    /\ ret'.op = "Section::operator[]" =>
           /\ ret'.outcome = "value"
           /\ DOMAIN data' = DOMAIN data
           /\ ret'.value = data'[ret'.name].values[ret'.key]
           /\ IF ret'.key \in DOMAIN data[ret'.name].values
              THEN data' = data
              ELSE /\ Inserted(data[ret'.name].values, data'[ret'.name].values,
                               ret'.key, <<>>)
                   /\ data'[ret'.name].name = data[ret'.name].name
                   /\ \A m \in DOMAIN data \ {ret'.name} : data'[m] = data[m]

C10_AutoCreate == [][C10_AutoCreateStep]_vars

\* data[n] has inserted a section into a Document that holds a non-empty one
C10_Witness ==
    /\ ret.op = "Data::operator[]"
    /\ ~ret.found
    /\ data[ret.name] = DefaultSection
    /\ \E m \in DOMAIN data : data[m].values # EmptyMap

(***************************************************************************)
(* C11.  setValue overwrites: after section.setValue(k, v) the section      *)
(* holds k -> v, whether or not k was stored before.                        *)
(***************************************************************************)
C11_SetValueOverwrites ==
    ret.op = "Section::setValue" =>
        /\ ret.key \in DOMAIN data[ret.name].values
        /\ data[ret.name].values[ret.key] = ret.value

(***************************************************************************)
(* C12.  Deletion is a no-op when absent: eraseSection(n) without a section *)
(* n and deleteValue(k) without a key k leave the Document unchanged; when  *)
(* the entry is present exactly that entry is removed and all others stay.  *)
(***************************************************************************)
\* m2 is m with exactly key k removed
Removed(m, m2, k) ==
    /\ DOMAIN m2 = DOMAIN m \ {k}
    /\ \A x \in DOMAIN m2 : m2[x] = m[x]

C12_DeletionStep ==
    /\ ret'.op = "Data::eraseSection" =>
           IF ret'.name \in DOMAIN data
           THEN Removed(data, data', ret'.name)
           ELSE data' = data
    /\ ret'.op = "Section::deleteValue" =>
           /\ DOMAIN data' = DOMAIN data
           /\ \A m \in DOMAIN data \ {ret'.name} : data'[m] = data[m]
           /\ data'[ret'.name].name = data[ret'.name].name
           /\ IF ret'.key \in DOMAIN data[ret'.name].values
              THEN Removed(data[ret'.name].values, data'[ret'.name].values, ret'.key)
              ELSE data' = data

C12_Deletion == [][C12_DeletionStep]_vars

\* a section has been erased from a Document that keeps a non-empty one
C12_Witness ==
    /\ ret.op = "Data::eraseSection"
    /\ ret.found
    /\ ret.name \notin DOMAIN data
    /\ \E m \in DOMAIN data : data[m].values # EmptyMap

(***************************************************************************)
(* C13.  encode output is canonical: encode(D) is, over the sections in     *)
(* ascending name order, the header [name]\n (omitted exactly for the       *)
(* section named "") followed by key=value\n for each entry in ascending    *)
(* key order, keys and values copied verbatim.                              *)
(***************************************************************************)
\* the names and keys of the bounded Documents, written out in ascending order
NamesAscending == << <<>>, <<ChA>>, <<ChB>> >>
KeysAscending == << <<ChA>>, <<ChB>> >>

EntryLine(sec, k) ==
    IF k \in DOMAIN sec.values THEN k \o <<EQ>> \o sec.values[k] \o <<LF>> ELSE <<>>

SectionText(sections, n) ==
    IF n \in DOMAIN sections
    THEN (IF n = <<>> THEN <<>> ELSE <<LBR>> \o n \o <<RBR, LF>>)
         \o EntryLine(sections[n], KeysAscending[1])
         \o EntryLine(sections[n], KeysAscending[2])
    ELSE <<>>

Canonical(sections) ==
    SectionText(sections, NamesAscending[1])
    \o SectionText(sections, NamesAscending[2])
    \o SectionText(sections, NamesAscending[3])

C13_EncodeCanonical ==
    /\ ret.op = "encode(data)" => ret.value = Canonical(data)
    /\ ret.op = "encode(data, true)" => ret.value = utf8ByteOrderMark \o Canonical(data)

\* a Document with entries in the main section and two named sections, one of
\* them with two keys, has been encoded
C13_Witness ==
    /\ ret.op = "encode(data)"
    /\ DOMAIN data = Names
    /\ data[<<>>].values # EmptyMap
    /\ DOMAIN data[<<ChB>>].values = Keys
    /\ Len(ret.value) > 12

(***************************************************************************)
(* C14.  Round trip of structured content: for every Document whose         *)
(* sections each hold at least one entry, whose section names and keys are  *)
(* non-empty and free of [ ] = ; space tab \n \r (values free of them too),  *)
(* parse(encode(D)) succeeds with the same section names, keys and values.  *)
(***************************************************************************)
Plain(t) == \A i \in 1..Len(t) : t[i] \notin {LBR, RBR, EQ, SEMI, SP, TAB, LF, CR}

Structured(sections) ==
    \A n \in DOMAIN sections :
        /\ n # <<>>
        /\ Plain(n)
        /\ sections[n].values # EmptyMap
        /\ \A k \in DOMAIN sections[n].values :
               k # <<>> /\ Plain(k) /\ Plain(sections[n].values[k])

SameContent(a, b) ==
    /\ DOMAIN a = DOMAIN b
    /\ \A n \in DOMAIN a : a[n].values = b[n].values

C14_RoundTrip ==
    (ret.op = "encode(data)" /\ Structured(data)) =>
        LET p == parse(ret.value)
        IN  p.pc = "done" /\ SameContent(p.result, data)

(***************************************************************************)
(* C15.  Byte-order-mark skipping: parse starts scanning at the fourth      *)
(* element exactly when the first three elements of the input are           *)
(* 0xEF 0xBB 0xBF, so parse(BOM followed by t) has the same outcome as      *)
(* parse(t); otherwise scanning starts at the first element, and the test   *)
(* for the mark reads no element at or past end-of-input.                   *)
(***************************************************************************)
StartsWithBom(t) == Len(t) >= 3 /\ SubSeq(t, 1, 3) = <<239, 187, 191>>

AfterBom(t) == SubSeq(t, 4, Len(t))

\* the run of parse on t has no dereference past end
Defined(t) == parse(t).pc # "undefined"

SameResult(p, q) == p.pc = q.pc /\ p.result = q.result /\ p.error = q.error

\* parse on t with the scan started at element i
ScanFrom(t, i) == run([Start(t) EXCEPT !.iterator = i])

EqCount(l) == Cardinality({i \in 1..Len(EntryText(l)) : EntryText(l)[i] = EQ})

HasSecondEq(l) == Kind(l) = "entry" /\ EqCount(l) >= 2

\* a line parse passes without raising: blank, comment, or an entry with a
\* key and at most one '='
Passes(l) ==
    \/ Kind(l) \in {"blank", "comment"}
    \/ Kind(l) = "entry" /\ Body(l)[1] # EQ /\ EqCount(l) <= 1

\* line i of ls is the first line that does not pass
FirstOffence(ls, i) == i \in 1..Len(ls) /\ \A j \in 1..(i - 1) : Passes(ls[j])

C16_OneEqPerLine ==
    LET ls == InputLines
    IN  /\ (pc \in Final /\ \E i \in 1..Len(ls) : HasSecondEq(ls[i])) => pc = "error"
        /\ (pc \in Final /\ \E i \in 1..Len(ls) : FirstOffence(ls, i) /\ HasSecondEq(ls[i]))
           => error = "Unexpected character"
        /\ pc = "done" =>
               \A p \in StoredPairs(result) :
                   /\ \A i \in 1..Len(p[1]) : p[1][i] # EQ
                   /\ \A i \in 1..Len(p[2]) : p[2][i] # EQ

\* a second '=' on the second line of the input has been rejected
C16_Witness ==
    /\ pc = "error"
    /\ error = "Unexpected character"
    /\ Len(InputLines) = 2
    /\ Kind(InputLines[1]) = "entry"
    /\ HasSecondEq(InputLines[2])

(***************************************************************************)
(* C17.  Empty key is rejected, empty value is accepted: a key/value line   *)
(* whose key text is empty after trimming makes parse raise ParseError      *)
(* ("Invalid key name"), also when only blanks precede its '='; a line      *)
(* whose value text is empty after trimming is stored with "" as value.     *)
(***************************************************************************)
EmptyKey(l) == Kind(l) = "entry" /\ EntryKey(l) = <<>>

\* the entry lines with an empty value whose key no later entry line has
EmptyValued(ls) ==
    {i \in Entries(ls) :
        /\ EntryValue(ls[i]) = <<>>
        /\ \A j \in Entries(ls) : j > i => EntryKey(ls[j]) # EntryKey(ls[i])}

EmptyValuesStored ==
    pc = "done" =>
        \A i \in EmptyValued(InputLines) :
            <<EntryKey(InputLines[i]), <<>>>> \in StoredPairs(result)

\* as worded: every line with an empty key text
C17_EmptyKeyAsWorded ==
    LET ls == InputLines
    IN  (pc \in Final /\ \E i \in 1..Len(ls) : FirstOffence(ls, i) /\ EmptyKey(ls[i]))
        => (pc = "error" /\ error = "Invalid key name")

\* every line with an empty key text and no second '=' before a ';'
C17_EmptyKey ==
    LET ls == InputLines
    IN  /\ (pc \in Final /\ \E i \in 1..Len(ls) : EmptyKey(ls[i])) => pc = "error"
        /\ (pc \in Final /\ \E i \in 1..Len(ls) :
                FirstOffence(ls, i) /\ EmptyKey(ls[i]) /\ EqCount(ls[i]) <= 1)
           => error = "Invalid key name"
        /\ EmptyValuesStored

\* a line whose '=' follows a blank has been rejected after a stored entry
C17_Witness ==
    /\ pc = "error"
    /\ error = "Invalid key name"
    /\ result # EmptyMap
    /\ Len(InputLines) = 2
    /\ InputLines[2] # <<>>
    /\ InputLines[2][1] \in Blanks
    /\ EmptyKey(InputLines[2])

(***************************************************************************)
(* C18.  Nothing but blanks or a comment may follow a closed header: on a   *)
(* header line, a character after the first ']' that is not a space, a      *)
(* tab, a line terminator or ';' (a second ']', '[', '=' included) makes    *)
(* parse raise ParseError ("Unexpected character after section").           *)
(***************************************************************************)
\* a header line with a ']'
Closed(l) == Kind(l) = "header" /\ First(Body(l), {RBR}) <= Len(Body(l))

\* the text of a closed header line after its first ']', up to the first ';'
AfterClose(l) ==
    LET rest == SubSeq(Body(l), First(Body(l), {RBR}) + 1, Len(Body(l)))
    IN  SubSeq(rest, 1, First(rest, {SEMI}) - 1)

HasTextAfterClose(l) ==
    /\ Closed(l)
    /\ First(Body(l), {SEMI}) > First(Body(l), {RBR})
    /\ \E i \in 1..Len(AfterClose(l)) : AfterClose(l)[i] \notin Blanks

C18_NothingAfterClosedHeader ==
    LET ls == InputLines
    IN  (pc \in Final /\ Defined(input)
            /\ \E i \in 1..Len(ls) : FirstOffence(ls, i) /\ HasTextAfterClose(ls[i]))
        => (pc = "error" /\ error = "Unexpected character after section")

(***************************************************************************)
(* C19.  Empty section names are rejected wherever they occur: a header     *)
(* whose text between '[' and ']' is empty or only spaces and tabs makes    *)
(* parse raise ParseError ("Invalid section name"), whether it is the       *)
(* first header of the input or follows other headers.                      *)
(***************************************************************************)
EmptyName(l) ==
    /\ Closed(l)
    /\ First(Body(l), {SEMI}) > First(Body(l), {RBR})
    /\ HeaderName(l) = <<>>

C19_EmptySectionNameRejected ==
    LET ls == InputLines
    IN  (pc \in Final /\ Defined(input) /\ \E i \in 1..Len(ls) : EmptyName(ls[i]))
        => pc = "error"

(***************************************************************************)
(* C20.  An unclosed header is rejected: a header line on which a line      *)
(* terminator or end-of-input is reached before ']' makes parse raise       *)
(* ParseError ("Unexpected end of section"), one on which ';' occurs        *)
(* before ']' makes it raise ParseError ("Unexpected comment").             *)
(***************************************************************************)
\* a header line that ends before a ']', without a ';'
EndsUnclosed(l) ==
    /\ Kind(l) = "header"
    /\ \A i \in 1..Len(Body(l)) : Body(l)[i] \notin {RBR, SEMI}

\* a header line with a ';' before any ']'
CommentUnclosed(l) ==
    /\ Kind(l) = "header"
    /\ First(Body(l), {SEMI}) < First(Body(l), {RBR})

C20_UnclosedHeaderRejected ==
    LET ls == InputLines
    IN  /\ (pc \in Final /\ \E i \in 1..Len(ls) :
                EndsUnclosed(ls[i]) \/ CommentUnclosed(ls[i]))
           => pc = "error"
        /\ (pc \in Final /\ \E i \in 1..Len(ls) : FirstOffence(ls, i) /\ EndsUnclosed(ls[i]))
           => error = "Unexpected end of section"
        /\ (pc \in Final /\ \E i \in 1..Len(ls) : FirstOffence(ls, i) /\ CommentUnclosed(ls[i]))
           => error = "Unexpected comment"

\* a header cut off by the end of the input has been rejected after a stored entry
C20_Witness ==
    /\ pc = "error"
    /\ error = "Unexpected end of section"
    /\ result # EmptyMap
    /\ input[Len(input)] \notin Terminators
    /\ EndsUnclosed(InputLines[Len(InputLines)])

(***************************************************************************)
(* C21.  Names in a parsed Document are trimmed and non-empty: every key    *)
(* is non-empty without leading or trailing space or tab, every value has   *)
(* no leading or trailing space or tab, every section name is "" or         *)
(* non-empty without leading or trailing space or tab; no name, key or      *)
(* value contains '\n' or '\r'.                                             *)
(***************************************************************************)
Trimmed(t) == t = <<>> \/ (t[1] \notin Blanks /\ t[Len(t)] \notin Blanks)

OneLine(t) == \A i \in 1..Len(t) : t[i] \notin Terminators

C21_NamesTrimmed ==
    pc = "done" =>
        /\ \A n \in DOMAIN result : Trimmed(n) /\ OneLine(n)
        /\ \A p \in StoredPairs(result) :
               /\ p[1] # <<>>
               /\ Trimmed(p[1]) /\ OneLine(p[1])
               /\ Trimmed(p[2]) /\ OneLine(p[2])

\* an entry whose key is followed by a tab and whose value follows a blank has
\* been stored
C21_Witness ==
    /\ pc = "done"
    /\ Len(input) = 4
    /\ input[2] = TAB
    /\ input[3] = EQ
    /\ input[4] \in Blanks
    /\ StoredPairs(result) = {<<SubSeq(input, 1, 1), <<>>>>}

(***************************************************************************)
(* C22.  Iteration is ordered and complete: after any sequence of           *)
(* insertions, iterating a Document (a Section), through the mutable or     *)
(* the read-only view, visits every section (entry) exactly once in         *)
(* ascending order of name (key), and the number of visited elements is     *)
(* getSize().                                                               *)
(***************************************************************************)
\* the place of a name or key in ascending order
Rank(x) == CHOOSE i \in 1..Len(NamesAscending) : NamesAscending[i] = x

\* seq visits exactly the keys of m, each once, in ascending order
VisitsInOrder(seq, m) ==
    /\ {seq[i] : i \in 1..Len(seq)} = DOMAIN m
    /\ \A i, j \in 1..Len(seq) : i < j => Rank(seq[i]) < Rank(seq[j])
    /\ Len(seq) = getSize(m)

C22_IterationOrdered ==
    /\ ret.op \in {"Data::begin", "Data::begin const"} => VisitsInOrder(ret.value, data)
    /\ ret.op \in {"Section::begin", "Section::begin const"}
           => VisitsInOrder(ret.value, data[ret.name].values)

\* a Document of three sections has been iterated through the read-only view
C22_Witness ==
    /\ ret.op = "Data::begin const"
    /\ Len(ret.value) = 3
    /\ \E n \in DOMAIN data : getSize(data[n].values) = 2

(***************************************************************************)
(* C23.  Bytes are opaque: every input element other than space, tab,       *)
(* '\n', '\r', '[', ']', '=', ';' is copied unchanged and in order into the  *)
(* section name, key or value being accumulated, and parsing a sequence of  *)
(* byte values yields the same Document as parsing the character sequence   *)
(* with the same 8-bit values.                                              *)
(***************************************************************************)
\* the 8-bit values of a sequence of elements (-128..255)
Bits(t) == [i \in 1..Len(t) |-> IF t[i] < 0 THEN t[i] + 256 ELSE t[i]]

C23_BytesOpaque ==
    LET ls == InputLines
    IN  /\ (pc \in Final /\ Defined(input)) => SameResult(State, parse(Bits(input)))
        /\ (pc = "done" /\ Defined(input)) =>
               /\ StoredPairs(result) \subseteq
                      {<<Bits(EntryKey(ls[i])), Bits(EntryValue(ls[i]))>> : i \in Entries(ls)}
               /\ {p[1] : p \in StoredPairs(result)} =
                      {Bits(EntryKey(ls[i])) : i \in Entries(ls)}
               /\ Headers(ls) # {} =>
                      LET h == CHOOSE i \in Headers(ls) : \A j \in Headers(ls) : i <= j
                      IN  Bits(HeaderName(ls[h])) \in DOMAIN result

\* a two-byte key given as signed chars has been stored with a value
C23_Witness ==
    /\ pc = "done"
    /\ Len(input) = 4
    /\ input[1] < 0
    /\ input[2] < 0
    /\ input[3] = EQ
    /\ StoredPairs(result) = {<<Bits(SubSeq(input, 1, 2)), Bits(SubSeq(input, 4, 4))>>}

(***************************************************************************)
(* C24.  A header followed on the same line by optional spaces/tabs and a   *)
(* ';' comment is parsed exactly like the header alone: the comment is      *)
(* consumed up to and including the line terminator (or to end-of-input),   *)
(* the section is created with the trimmed name, and the following line is  *)
(* dispatched as the start of a new line.                                   *)
(***************************************************************************)
\* a closed header line with only blanks between its ']' and a ';'
CommentedHeader(l) ==
    /\ Closed(l)
    /\ First(Body(l), {RBR}) < First(Body(l), {SEMI})
    /\ First(Body(l), {SEMI}) <= Len(Body(l))
    /\ \A i \in 1..Len(AfterClose(l)) : AfterClose(l)[i] \in Blanks

RECURSIVE HeaderAlone(_)
\* t with every commented header line cut after its ']'
HeaderAlone(t) ==
    IF t = <<>> THEN <<>>
    ELSE LET n == First(t, Terminators)
             l == SubSeq(t, 1, n - 1)
             cut == IF CommentedHeader(l) THEN SubSeq(l, 1, First(l, {RBR})) ELSE l
         IN  IF n > Len(t) THEN cut
             ELSE cut \o <<t[n]>> \o HeaderAlone(SubSeq(t, n + 1, Len(t)))

C24_CommentAfterHeader ==
    (pc \in Final /\ Defined(input)
        /\ \E i \in 1..Len(InputLines) : CommentedHeader(InputLines[i]))
    => SameResult(State, parse(HeaderAlone(input)))

(***************************************************************************)
(* C25.  All three line terminators are equivalent for the parser:          *)
(* replacing every '\n' of the input by '\r\n' or by a bare '\r' does not    *)
(* change the outcome of parse (equal Documents, or ParseError in both      *)
(* cases), and no stored name, key or value contains the '\n' of a '\r\n'    *)
(* pair.                                                                    *)
(***************************************************************************)
RECURSIVE ReplaceLF(_, _)
\* t with every '\n' replaced by the sequence nl
ReplaceLF(t, nl) ==
    IF t = <<>> THEN <<>>
    ELSE (IF Head(t) = LF THEN nl ELSE <<Head(t)>>) \o ReplaceLF(Tail(t), nl)

NoLF(t) == \A i \in 1..Len(t) : t[i] # LF

C25_TerminatorsEquivalent ==
    /\ (pc \in Final /\ Defined(input)) =>
           /\ SameOutcome(State, parse(ReplaceLF(input, <<CR, LF>>)))
           /\ SameOutcome(State, parse(ReplaceLF(input, <<CR>>)))
    /\ pc = "done" =>
           /\ \A n \in DOMAIN result : NoLF(n)
           /\ \A p \in StoredPairs(result) : NoLF(p[1]) /\ NoLF(p[2])

\* two entries separated by '\r\n' have been stored
C25_Witness ==
    /\ pc = "done"
    /\ \E i \in 2..(Len(input) - 1) : input[i] = CR /\ input[i + 1] = LF
    /\ Cardinality(StoredPairs(result)) = 2

(***************************************************************************)
(* C26.  Last write wins during parsing: when the same trimmed key occurs   *)
(* on several key/value lines of the same current section, the parsed       *)
(* section holds exactly one entry for that key and its value is the        *)
(* trimmed value of the last such line.                                     *)
(***************************************************************************)
\* the index of the last header line of ls, 0 when there is none
LastHeader(ls) ==
    IF Headers(ls) = {} THEN 0
    ELSE CHOOSE h \in Headers(ls) : \A g \in Headers(ls) : g <= h

\* the index of the first header line of ls, Len(ls) + 1 when there is none
FirstHeader(ls) ==
    IF Headers(ls) = {} THEN Len(ls) + 1
    ELSE CHOOSE h \in Headers(ls) : \A g \in Headers(ls) : h <= g

\* the entries before the first header are those of the main section, the
\* entries after the last header those of the section current at the end
C26_LastWriteWins ==
    LET ls == InputLines
        f == FirstHeader(ls)
        h == LastHeader(ls)
    IN  /\ (pc = "done" /\ \E i \in Entries(ls) : i < f) =>
               /\ <<>> \in DOMAIN result
               /\ result[<<>>].values = EntriesMap(ls, 1, f - 1)
        /\ (pc = "done" /\ \E i \in Entries(ls) : i > h) =>
               /\ section \in DOMAIN result
               /\ result[section].values = EntriesMap(ls, h + 1, Len(ls))

\* a key given twice with different values has been stored once
C26_Witness ==
    /\ pc = "done"
    /\ \E i, j \in Entries(InputLines) :
           /\ LastHeader(InputLines) < i
           /\ i < j
           /\ EntryKey(InputLines[i]) = EntryKey(InputLines[j])
           /\ EntryValue(InputLines[i]) # EntryValue(InputLines[j])
           /\ result[section].values[EntryKey(InputLines[j])] = EntryValue(InputLines[j])
           /\ Cardinality(DOMAIN result[section].values) = 1

(***************************************************************************)
(* C27.  Encoding does not depend on insertion order: two Documents built   *)
(* by the same set of (section, key, value) assignments with pairwise       *)
(* distinct (section, key) pairs, applied in any two different orders,      *)
(* hold the same content and encode to identical text.                      *)
(***************************************************************************)
\* the content of a Document as a set of assignments
Assignments(sections) ==
    UNION {{<<n, k, sections[n].values[k]>> : k \in DOMAIN sections[n].values} :
           n \in DOMAIN sections}

RECURSIVE Orders(_)
\* the sequences that hold every element of S once
Orders(S) ==
    IF S = {} THEN {<<>>}
    ELSE UNION {{<<x>> \o o : o \in Orders(S \ {x})} : x \in S}

RECURSIVE Build(_, _)
\* the Document after the assignments of o, in this order, on sections
Build(sections, o) ==
    IF o = <<>> THEN sections
    ELSE Build(AssignValue(sections, o[1][1], o[1][2], o[1][3]), Tail(o))

\* whatever the order, the assignments of an encoded Document give a Document
\* of the same content and the same text
C27_OrderIndependent ==
    (ret.op = "encode(data)" /\ \A n \in DOMAIN data : data[n].values # EmptyMap) =>
        \A o \in Orders(Assignments(data)) :
            /\ Build(EmptyMap, o) = data
            /\ encode(Build(EmptyMap, o), FALSE) = ret.value

\* a Document of four entries in two sections has been encoded
C27_Witness ==
    /\ ret.op = "encode(data)"
    /\ Cardinality(DOMAIN data) = 2
    /\ Cardinality(Assignments(data)) = 4
    /\ Len(ret.value) >= 16

(***************************************************************************)
(* C28.  The cursor stays inside the input: in every reachable state of     *)
(* parse the cursor position is at most end-of-input, the cursor is never   *)
(* advanced when it already equals end-of-input, and no element is read at  *)
(* a position at or past end-of-input.                                      *)
(***************************************************************************)
C28_CursorInside ==
    /\ iterator <= End(State)
    /\ pc \notin Final => ~OutOfBounds(State)

(***************************************************************************)
(* C29.  A section knows its own name: in every Document returned by        *)
(* parse, every section stored under name N has the name field              *)
(* (getName()) N.                                                           *)
(***************************************************************************)
C29_SectionKnowsName ==
    pc = "done" => \A n \in DOMAIN result : result[n].name = n

(***************************************************************************)
(* C30.  A key/value line without '=' is not an error: a line that starts   *)
(* with a character other than space, tab, line terminator, '[', ';' and    *)
(* '=' and reaches a line terminator, end-of-input or ';' before any '='    *)
(* is stored as the trimmed text before that point with the empty string    *)
(* as value, in the current section.                                        *)
(***************************************************************************)
\* an entry line without '=' before its end or its first ';'
NoEq(l) == Kind(l) = "entry" /\ EqCount(l) = 0

\* the keys of the entry lines from..to of ls without '=' that no later entry
\* line of from..to repeats
BareKeys(ls, from, to) ==
    {EntryKey(ls[i]) : i \in {j \in Entries(ls) :
        /\ from <= j /\ j <= to
        /\ NoEq(ls[j])
        /\ \A m \in Entries(ls) : (j < m /\ m <= to) => EntryKey(ls[m]) # EntryKey(ls[j])}}

C30_LineWithoutEq ==
    LET ls == InputLines
        f == FirstHeader(ls)
        h == LastHeader(ls)
    IN  /\ (pc \in Final /\ \A i \in 1..Len(ls) :
                Kind(ls[i]) \in {"blank", "comment"} \/ NoEq(ls[i]))
           => pc = "done"
        /\ pc = "done" =>
               /\ \A k \in BareKeys(ls, 1, f - 1) :
                      /\ <<>> \in DOMAIN result
                      /\ k \in DOMAIN result[<<>>].values
                      /\ result[<<>>].values[k] = <<>>
               /\ \A k \in BareKeys(ls, h + 1, Len(ls)) :
                      /\ section \in DOMAIN result
                      /\ k \in DOMAIN result[section].values
                      /\ result[section].values[k] = <<>>

\* two lines without '=', one ended by '\r' and one by ';', have been stored
C30_Witness ==
    /\ pc = "done"
    /\ Len(input) = 4
    /\ input[1] # input[3]
    /\ input[2] = CR
    /\ input[4] = SEMI
    /\ NoEq(InputLines[1])
    /\ NoEq(InputLines[2])
    /\ result[<<>>].values = [k \in {SubSeq(input, 1, 1), SubSeq(input, 3, 3)} |-> <<>>]

(***************************************************************************)
(* C31.  The main section exists only when it has content: the Document     *)
(* returned by parse has a section named "" if and only if a key/value      *)
(* line precedes the first section header of the input; that section then   *)
(* holds exactly the entries of those lines, and no entry of a line after   *)
(* the first header.                                                        *)
(***************************************************************************)
C31_MainSectionOnlyWithContent ==
    pc = "done" =>
        LET ls == InputLines
            f == FirstHeader(ls)
            early == {i \in Entries(ls) : i < f}
        IN  /\ (<<>> \in DOMAIN result) <=> (early # {})
            /\ <<>> \in DOMAIN result =>
                   /\ result[<<>>].values # EmptyMap
                   /\ result[<<>>].values = EntriesMap(ls, 1, f - 1)

\* an entry before a header is in the main section, an entry after it is not
C31_Witness ==
    /\ pc = "done"
    /\ Len(InputLines) = 3
    /\ Kind(InputLines[1]) = "entry"
    /\ Kind(InputLines[2]) = "header"
    /\ Kind(InputLines[3]) = "entry"
    /\ EntryKey(InputLines[3]) # EntryKey(InputLines[1])
    /\ DOMAIN result[<<>>].values = {EntryKey(InputLines[1])}
    /\ Cardinality(DOMAIN result) = 2

ReadOnlyOps ==
    {"Data::hasSection", "Section::hasValue", "Section::getValue",
     "Data::getSize", "Section::getSize",
     "Data::operator[] const", "Section::operator[] const",
     "encode(data)", "encode(data, true)"}

C33_ReadOnlyStep == ret'.op \in ReadOnlyOps => data' = data

C33_ReadOnly == [][C33_ReadOnlyStep]_vars

\* getValue has answered with its default for a key the section does not hold,
\* and the section still does not hold it
C33_Witness ==
    /\ ret.op = "Section::getValue"
    /\ ~ret.found
    /\ ret.value # <<>>
    /\ ret.key \notin DOMAIN data[ret.name].values
    /\ data[ret.name].values # EmptyMap

====
